---- MODULE Spec2Model ----
(***************************************************************************)
(* Loading docs/conf.py, the Sphinx configuration of Numerixx.             *)
(*                                                                         *)
(* The file is a straight-line Python module body.  Loading it executes    *)
(* its lines from top to bottom in a namespace (a mapping from names to    *)
(* values): a blank line or a comment does nothing, an assignment          *)
(* `name = literal` binds the name to the literal.  The model keeps the    *)
(* file as a sequence of lines, one entry per line of the source, and      *)
(* interprets it line by line.                                             *)
(***************************************************************************)
EXTENDS Naturals, Sequences, FiniteSets

VARIABLES
    src,      \* the lines of the file being loaded
    ns,       \* the namespace the file is loaded into
    pc,       \* number of the next line to execute
    status,   \* "loading" while the body runs, "done" once it has run
    writes,   \* per name, the bindings made by the load in progress
    loads,    \* completed loads
    snap      \* the namespace as it was when the load in progress began

vars == <<src, ns, pc, status, writes, loads, snap>>

----------------------------------------------------------------------------
(* Bounds *)

\* Loads of the file in one behaviour.
MaxLoads == 2

\* Names already bound in the namespace before the first load.
MaxPrior == 2

----------------------------------------------------------------------------
(* Values *)

\* A Python string literal.
Str(s) == [kind |-> "str", items |-> <<s>>]

\* A Python list literal of strings.
List(xs) == [kind |-> "list", items |-> xs]

\* A name with no binding.
Undef == [kind |-> "undef", items |-> <<>>]

\* A binding left in the namespace by whatever ran before the load.
Stale == Str("stale")

----------------------------------------------------------------------------
(* The lines of docs/conf.py *)

\* A blank line.
Blank == [kind |-> "blank", name |-> "", value |-> Undef]

\* A comment line of prose.
Comment == [kind |-> "comment", name |-> "", value |-> Undef]

\* A commented-out assignment: `#name = value`.
Disabled(n, v) == [kind |-> "comment", name |-> n, value |-> v]

\* An assignment statement: `name = value`.
Assignment(n, v) == [kind |-> "assign", name |-> n, value |-> v]

\* Line 9, with the project renamed and Breathe's setting left behind.
projectLineRenamed == Assignment("project", Str("numerixx"))

\* Line 9: project = 'Numerixx'
projectLine == Assignment("project", Str("Numerixx"))

\* Line 17, with a second extension switched on.
extensionsLineAutodoc == Assignment("extensions", List(<<"breathe", "sphinx.ext.autodoc">>))

\* Line 17: extensions = ["breathe"]
extensionsLine == Assignment("extensions", List(<<"breathe">>))

\* Line 27: #html_theme = 'furo'
themeFuroLine == Disabled("html_theme", Str("furo"))

\* Line 28: html_theme = 'sphinx_rtd_theme'
themeRtdLine == Assignment("html_theme", Str("sphinx_rtd_theme"))

\* Line 29, uncommented while line 28 stays live.
themeBookLineLive == Assignment("html_theme", Str("sphinx_book_theme"))

\* Line 29: #html_theme = 'sphinx_book_theme'
themeBookLine == Disabled("html_theme", Str("sphinx_book_theme"))

\* Line 30: #html_theme = 'press'
themePressLine == Disabled("html_theme", Str("press"))

\* Line 34: breathe_default_project = "Numerixx"
breatheLine == Assignment("breathe_default_project", Str("Numerixx"))

\* The file, line by line (entry i is line i of docs/conf.py).
conf ==
    << Comment, Comment, Comment, Comment,                                  \*  1- 4
       Blank, Comment, Comment, Blank,                                      \*  5- 8
       projectLine,                                                         \*  9
       Assignment("copyright", Str("2023, TheCodeOwl.com")),                \* 10
       Assignment("author", Str("Troldal")),                                \* 11
       Assignment("release", Str("0.0.1")),                                 \* 12
       Blank, Comment, Comment, Blank,                                      \* 13-16
       extensionsLine,                                                      \* 17
       Blank,                                                               \* 18
       Assignment("templates_path", List(<<"_templates">>)),                \* 19
       Assignment("exclude_patterns",
                  List(<<"_build", "Thumbs.db", ".DS_Store">>)),            \* 20
       Blank, Blank, Blank, Comment, Comment, Blank,                        \* 21-26
       themeFuroLine, themeRtdLine, themeBookLine, themePressLine,          \* 27-30
       Assignment("html_static_path", List(<<"_static">>)),                 \* 31
       Blank, Comment,                                                      \* 32-33
       breatheLine >>                                                       \* 34

\* First and last of the candidate theme lines.
ThemeFirst == 27
ThemeLast == 30

\* The names conf.py binds.
Settings ==
    {"project", "copyright", "author", "release", "extensions",
     "templates_path", "exclude_patterns", "html_theme", "html_static_path",
     "breathe_default_project"}

\* Names Sphinx and Breathe read that conf.py never binds.
OtherNames == {"breathe_projects", "html_theme_options"}

Names == Settings \cup OtherNames

----------------------------------------------------------------------------
(* The interpreter *)

\* A comment that holds an assignment taken for a statement.
IsLiveIgnoringHash(line) == line.name # ""

\* Whether a line is a statement: comments and blank lines are not.
IsLive(line) == line.kind = "assign"

\* A binding that keeps what the name already holds (dict.setdefault).
BindIfUnset(space, n, v) ==
    IF space[n] = Undef THEN [space EXCEPT ![n] = v] ELSE space

\* `n = v`: the name is rebound, whatever it held.
Bind(space, n, v) == [space EXCEPT ![n] = v]

\* The files obtained from conf.py by reordering its four theme lines.
ThemeOrders ==
    LET R == ThemeFirst..ThemeLast
        Perms == {p \in [R -> R] : \A i, j \in R : p[i] = p[j] => i = j}
    IN  {[i \in 1..Len(conf) |-> IF i \in R THEN conf[p[i]] ELSE conf[i]] : p \in Perms}

\* The namespaces a load may start from: at most MaxPrior names already bound.
PriorNamespaces ==
    {f \in [Names -> {Undef, Stale}] :
        Cardinality({n \in Names : f[n] # Undef}) <= MaxPrior}

NoWrites == [n \in Names |-> 0]

\* A load starts at line 1 of the file.
Start(file, space) ==
    /\ src = file
    /\ ns = space
    /\ pc = 1
    /\ status = "loading"
    /\ writes = NoWrites
    /\ loads = 0
    /\ snap = space

\* conf.py as it is, loaded into any prior namespace.
Init == \E space \in PriorNamespaces : Start(conf, space)

\* conf.py with its theme lines in any order, loaded into a fresh namespace.
InitOrder == \E file \in ThemeOrders : Start(file, [n \in Names |-> Undef])

\* A blank line or a comment: nothing happens.
SkipLine ==
    /\ status = "loading"
    /\ pc <= Len(src)
    /\ ~IsLive(src[pc])
    /\ pc' = pc + 1
    /\ UNCHANGED <<src, ns, status, writes, loads, snap>>

\* An assignment statement binds its name to its literal.
Assign ==
    /\ status = "loading"
    /\ pc <= Len(src)
    /\ IsLive(src[pc])
    /\ ns' = Bind(ns, src[pc].name, src[pc].value)
    /\ writes' = [writes EXCEPT ![src[pc].name] = @ + 1]
    /\ pc' = pc + 1
    /\ UNCHANGED <<src, status, loads, snap>>

\* The end of the file: the load is complete.
Finish ==
    /\ status = "loading"
    /\ pc = Len(src) + 1
    /\ status' = "done"
    /\ loads' = loads + 1
    /\ UNCHANGED <<src, ns, pc, writes, snap>>

\* The file is loaded again into the namespace the last load left.
Reload ==
    /\ status = "done"
    /\ loads < MaxLoads
    /\ status' = "loading"
    /\ pc' = 1
    /\ writes' = NoWrites
    /\ snap' = ns
    /\ UNCHANGED <<src, ns, loads>>

Next == SkipLine \/ Assign \/ Finish \/ Reload

Spec == Init /\ [][Next]_vars

SpecOrder == InitOrder /\ [][Next]_vars

\* The names the load in progress has bound so far.
Written == {n \in Names : writes[n] > 0}

\* The live assignments to a name in the file being loaded.
LiveLines(n) == {i \in 1..Len(src) : src[i].kind = "assign" /\ src[i].name = n}

\* The commented-out assignments to a name in the file being loaded.
DisabledLines(n) == {i \in 1..Len(src) : src[i].kind = "comment" /\ src[i].name = n}

TypeOK ==
    /\ pc \in 1..(Len(src) + 1)
    /\ status \in {"loading", "done"}
    /\ loads \in 0..MaxLoads
    /\ \A n \in Names : ns[n].kind \in {"undef", "str", "list"}

----------------------------------------------------------------------------
(* Properties *)

\* The configuration a completed load of conf.py leaves in the ten settings.
LoadedConfig ==
    [n \in Settings |->
        CASE n = "project"                 -> Str("Numerixx")
          [] n = "copyright"               -> Str("2023, TheCodeOwl.com")
          [] n = "author"                  -> Str("Troldal")
          [] n = "release"                 -> Str("0.0.1")
          [] n = "extensions"              -> List(<<"breathe">>)
          [] n = "templates_path"          -> List(<<"_templates">>)
          [] n = "exclude_patterns"        -> List(<<"_build", "Thumbs.db", ".DS_Store">>)
          [] n = "html_theme"              -> Str("sphinx_rtd_theme")
          [] n = "html_static_path"        -> List(<<"_static">>)
          [] n = "breathe_default_project" -> Str("Numerixx")]

\* C1 (as stated): a completed load has bound only the project name, the
\* author, the theme and the extension list, each to a literal.
C1_OnlyFourSettings ==
    status = "done" =>
        /\ Written = {"project", "author", "html_theme", "extensions"}
        /\ \A n \in Written : ns[n].kind \in {"str", "list"}

\* C1 (amended): a completed load has bound exactly the ten settings
\* project, copyright, author, release, extensions, templates_path,
\* exclude_patterns, html_theme, html_static_path and
\* breathe_default_project, and each holds a string or list-of-strings
\* literal that is the same whatever the namespace held before the load.
C1_OnlyLiteralSettings ==
    status = "done" =>
        /\ Written = {"project", "copyright", "author", "release", "extensions",
                      "templates_path", "exclude_patterns", "html_theme",
                      "html_static_path", "breathe_default_project"}
        /\ \A n \in Written :
              /\ ns[n].kind \in {"str", "list"}
              /\ ns[n] = LoadedConfig[n]

\* C1 witness: a load that began with the release bound to something else
\* and the copyright unbound has completed.
C1_Witness ==
    /\ status = "done"
    /\ loads = 1
    /\ snap["release"] = Stale
    /\ snap["copyright"] = Undef

\* C2: after conf.py is loaded the extension list is exactly ["breathe"].
C2_ExtensionsIsBreathe ==
    status = "done" =>
        /\ ns["extensions"].kind = "list"
        /\ ns["extensions"].items = <<"breathe">>

\* C2 witness: a load that began with another value in extensions has
\* completed.
C2_Witness ==
    /\ status = "done"
    /\ loads = 1
    /\ snap["extensions"] = Stale

\* C3: whatever the order of the four theme lines, exactly one of them is a
\* live assignment and three are comments, html_theme is bound exactly once
\* by a load, and after the load it is 'sphinx_rtd_theme'.
C3_ThemeIsRtd ==
    /\ Cardinality(LiveLines("html_theme")) = 1
    /\ Cardinality(DisabledLines("html_theme")) = 3
    /\ status = "done" =>
          /\ writes["html_theme"] = 1
          /\ ns["html_theme"] = Str("sphinx_rtd_theme")

\* C3 witness: a file whose live theme line comes first of the four, the
\* 'press' line moved up before the 'furo' line, has been loaded.
C3_Witness ==
    /\ status = "done"
    /\ src[ThemeFirst] = themeRtdLine
    /\ src[ThemeFirst + 1] = themePressLine
    /\ src[ThemeLast] = themeFuroLine

\* C4: after conf.py is loaded breathe_default_project equals project, both
\* the string "Numerixx".
C4_BreatheProjectIsProject ==
    status = "done" =>
        /\ ns["breathe_default_project"] = ns["project"]
        /\ ns["project"] = Str("Numerixx")

\* C4 witness: a load that began with project bound and
\* breathe_default_project unbound, so that the two differed, has completed.
C4_Witness ==
    /\ status = "done"
    /\ loads = 1
    /\ snap["project"] = Stale
    /\ snap["breathe_default_project"] = Undef

C6_LoadIdempotent ==
    status = "done" =>
        /\ \A n \in Settings : writes[n] = 1 /\ ns[n] = LoadedConfig[n]
        /\ \A n \in OtherNames : writes[n] = 0 /\ ns[n] = snap[n]
        /\ loads >= 2 => ns = snap

\* C6 witness: a second load has completed in a namespace that holds a name
\* conf.py does not bind.
C6_Witness ==
    /\ status = "done"
    /\ loads = 2
    /\ ns["breathe_projects"] = Stale
    /\ ns["html_theme_options"] = Undef

====
